---- MODULE Spec2Model ----
(***************************************************************************)
(* Model of the music bot's download pipeline (src/bot/handlers.py):       *)
(* AudioProcessor (download_track, _download_audio, _get_ydl_options) and  *)
(* the handlers: the collection flow (start_playlist_download,            *)
(* start_album_download), the single-track flow, the handlers of messages *)
(* and buttons, and extract_spotify_id.                                    *)
(*                                                                         *)
(* Strings the code inspects character by character (quality strings,     *)
(* file names, paths) are sequences of one-character strings; a file       *)
(* extension such as ".m4a" is one element of such a sequence.  None and   *)
(* the empty string, both falsy in Python, are the empty sequence.         *)
(***************************************************************************)
EXTENDS Integers, Sequences, FiniteSets, TLC

\* ------------------------------------------------------------- bounds
\* Longest quality string enumerated for the options builder.
MaxQualityLen == 3
\* Longest collection (playlist / album) enumerated.
MaxTracks == 2
\* Units of time one Tick lets pass (never beyond a due timer).
TickStep == 60
\* Longest track name enumerated for the naming of download_track.
MaxNameLen == 2
\* Most files in the workspace when the cleanup calls begin, and most cleanup
\* calls in a row.
MaxWorkspaceFiles == 3
MaxCleanupCalls == 3

\* ------------------------------------------------------ program constants
\* asyncio.wait_for(..., timeout=60)
TIMEOUT == 60
SOCKET_TIMEOUT == 20
HTTP_CHUNK_SIZE == 10485760
RETRIES == 2
FRAGMENT_RETRIES == 2

None == << >>

\* ------------------------------------------------------------ strings
Q128 == <<"1", "2", "8">>
Q192 == <<"1", "9", "2">>
Q320 == <<"3", "2", "0">>

QualityChars == {"1", "2", "3", "8", "9", "0"}

SeqsUpTo(S, n) == UNION {[1..k -> S] : k \in 0..n}

\* Every quality string the options builder is applied to.
QualityStrings == SeqsUpTo(QualityChars, MaxQualityLen)

IsPrefix(s, t) == Len(s) <= Len(t) /\ SubSeq(t, 1, Len(s)) = s

\* ---------------------------------------------- AudioProcessor, pure part
FMT_BASE == "bestaudio[ext=m4a]/bestaudio[ext=webm]/bestaudio"
FMT_128 == "bestaudio[abr<=128]/bestaudio"
FMT_192 == "bestaudio[abr<=192]/bestaudio"
FMT_320 == "bestaudio/best"

\* The dictionary _get_ydl_options starts from.
base_ydl_opts ==
    [format |-> FMT_BASE,
     noplaylist |-> TRUE,
     quiet |-> TRUE,
     no_warnings |-> TRUE,
     extractflat |-> FALSE,
     writesubtitles |-> FALSE,
     writeautomaticsub |-> FALSE,
     writedescription |-> FALSE,
     writeinfojson |-> FALSE,
     writethumbnail |-> FALSE,
     socket_timeout |-> SOCKET_TIMEOUT,
     http_chunk_size |-> HTTP_CHUNK_SIZE,
     retries |-> RETRIES,
     fragment_retries |-> FRAGMENT_RETRIES]

\* A builder that leaves the base format in place for an unknown quality.
get_ydl_options_no_else(quality) ==
    IF quality = Q128 THEN [base_ydl_opts EXCEPT !.format = FMT_128]
    ELSE IF quality = Q192 THEN [base_ydl_opts EXCEPT !.format = FMT_192]
    ELSE IF quality = Q320 THEN [base_ydl_opts EXCEPT !.format = FMT_320]
    ELSE base_ydl_opts

\* A builder that caps the format of "320" as it does the other tiers.
get_ydl_options_capped_320(quality) ==
    IF quality = Q128 THEN [base_ydl_opts EXCEPT !.format = FMT_128]
    ELSE IF quality = Q192 THEN [base_ydl_opts EXCEPT !.format = FMT_192]
    ELSE IF quality = Q320 THEN [base_ydl_opts EXCEPT !.format = "bestaudio[abr<=320]/bestaudio"]
    ELSE [base_ydl_opts EXCEPT !.format = FMT_192]

\* AudioProcessor._get_ydl_options
get_ydl_options(quality) ==
    IF quality = Q128 THEN [base_ydl_opts EXCEPT !.format = FMT_128]
    ELSE IF quality = Q192 THEN [base_ydl_opts EXCEPT !.format = FMT_192]
    ELSE IF quality = Q320 THEN [base_ydl_opts EXCEPT !.format = FMT_320]
    ELSE [base_ydl_opts EXCEPT !.format = FMT_192]

\* ------------------------------------------------------- paths and files
\* self.download_dir: one path component, without a trailing separator.
download_dir == <<"music_bot_">>

Max(S) == CHOOSE x \in S : \A y \in S : y <= x
Min(S) == CHOOSE x \in S : \A y \in S : x <= y

\* str.rfind, 1-based; 0 when c does not occur.
rfind(p, c) == Max({0} \cup {i \in 1..Len(p) : p[i] = c})

\* os.path.join(a, b)
path_join(a, b) == IF b # << >> /\ b[1] = "/" THEN b ELSE a \o <<"/">> \o b

\* os.path.basename
basename(p) == SubSeq(p, rfind(p, "/") + 1, Len(p))

\* os.path.splitext(p)[0]: cut at the last dot of the last component, unless
\* that component has only dots before it.
splitext_root(p) ==
    LET sep == rfind(p, "/")
        dot == rfind(p, ".")
    IN IF dot > sep /\ (\E k \in (sep + 1)..(dot - 1) : p[k] # ".")
       THEN SubSeq(p, 1, dot - 1)
       ELSE p

\* os.path.exists, for the files of the workspace
exists(fs, p) == p \in fs

\* os.listdir(self.download_dir) as a set: the first component below the
\* directory of every file under it.
listdir(fs) ==
    LET pre == download_dir \o <<"/">>
        rest(f) == SubSeq(f, Len(pre) + 1, Len(f))
        first(r) == SubSeq(r, 1, Min({Len(r) + 1} \cup {i \in 1..Len(r) : r[i] = "/"}) - 1)
    IN {first(rest(f)) : f \in {g \in fs : IsPrefix(pre, g) /\ Len(g) > Len(pre)}}

\* The orders in which os.listdir may return a set of entries (any order).
Listings(S) == {l \in [1..Cardinality(S) -> S] : \A e \in S : \E i \in DOMAIN l : l[i] = e}

\* ------------------------------------------------------------- naming
Alphabet == <<"a", "b", "x", " ", "-", "[", "]", ".", "/">>
CharCode(c) == Min({Len(Alphabet) + 1} \cup {i \in DOMAIN Alphabet : Alphabet[i] = c})

\* Size of the digest space the model gives hashlib.md5(...).hexdigest()[:8].
HashSpace == 5

RECURSIVE checksum(_)
checksum(s) == IF s = << >> THEN 0 ELSE (3 * checksum(Tail(s)) + CharCode(Head(s))) % HashSpace

HexDigits == <<"0", "1", "2", "3", "4", "5", "6", "7", "8", "9">>

\* hashlib.md5(search_query.encode()).hexdigest()[:8], as a digest in a small space
md5_8(s) == <<HexDigits[checksum(s) + 1]>>

\* f"{track_info['name']} {track_info['artist']}"
search_query_of(track) == track.name \o <<" ">> \o track.artist

\* A template that embeds the track id where the digest belongs.
output_filename_with_id(track) ==
    track.name \o <<" ", "-", " ">> \o track.artist \o <<" ", "[">>
        \o <<track.id>> \o <<"]", ".", "%(ext)s">>

\* A template made of the digest alone.
output_filename_hash_only(track) ==
    <<"[">> \o md5_8(search_query_of(track)) \o <<"]", ".", "%(ext)s">>

\* f"{name} - {artist} [{file_hash}].%(ext)s"
output_filename(track) ==
    track.name \o <<" ", "-", " ">> \o track.artist \o <<" ", "[">>
        \o md5_8(search_query_of(track)) \o <<"]", ".", "%(ext)s">>

\* ydl_opts['outtmpl'] = os.path.join(self.download_dir, output_filename)
outtmpl_of(track) == path_join(download_dir, output_filename(track))

\* ydl.prepare_filename(video_info): the template with the entry's extension
prepare_filename(outtmpl, info) == SubSeq(outtmpl, 1, Len(outtmpl) - 1) \o <<info.ext>>

\* sanitize_filename (utils): the characters of r'[<>:"/\\|?*]' become '_',
\* leading and trailing spaces and dots go, and the result is cut at 200.
INVALID_CHARS == {"<", ">", ":", "\"", "/", "\\", "|", "?", "*"}
MAX_FILENAME_LEN == 200

re_sub_invalid(s) == [i \in DOMAIN s |-> IF s[i] \in INVALID_CHARS THEN "_" ELSE s[i]]

\* str.strip(chars)
strip(s, chars) ==
    LET keep == {i \in DOMAIN s : s[i] \notin chars}
    IN IF keep = {} THEN << >> ELSE SubSeq(s, Min(keep), Max(keep))

sanitize_filename(filename) ==
    LET sanitized == strip(re_sub_invalid(filename), {" ", "."})
    IN IF Len(sanitized) > MAX_FILENAME_LEN THEN SubSeq(sanitized, 1, MAX_FILENAME_LEN) ELSE sanitized

\* ------------------------------------------------- output reconciliation
PROBE_EXTS_swapped == <<"m4a", "mp3", "webm", "ogg">>

PROBE_EXTS_no_m4a == <<"mp3", "webm", "ogg">>

\* for ext in ['.mp3', '.m4a', '.webm', '.ogg']
PROBE_EXTS == <<"mp3", "m4a", "webm", "ogg">>

potential_path(base_path, ext) == base_path \o <<".", ext>>

\* The probing loop over a list of extensions: the first potential path that
\* exists, else None.
probe_in(exts, fs, base_path) ==
    LET hits == {i \in DOMAIN exts : exists(fs, potential_path(base_path, exts[i]))}
    IN IF hits = {} THEN None ELSE potential_path(base_path, exts[Min(hits)])

probe_swapped(fs, base_path) == probe_in(PROBE_EXTS_swapped, fs, base_path)

probe_no_m4a(fs, base_path) == probe_in(PROBE_EXTS_no_m4a, fs, base_path)

\* Lines 111-114
probe(fs, base_path) == probe_in(PROBE_EXTS, fs, base_path)

\* A directory loop that compares for equality instead of a prefix.
scan_exact(listing, base_path) ==
    LET hits == {i \in DOMAIN listing : basename(base_path) = listing[i]}
    IN IF hits = {} THEN None ELSE path_join(download_dir, listing[Min(hits)])

\* The directory loop: the first listed entry starting with the base name.
scan(listing, base_path) ==
    LET hits == {i \in DOMAIN listing : IsPrefix(basename(base_path), listing[i])}
    IN IF hits = {} THEN None ELSE path_join(download_dir, listing[Min(hits)])

\* -------------------------------------------------------------- inputs
Users == {"u1"}

\* Track descriptors the catalog returns.
T1 == [id |-> "t1", name |-> <<"a">>, artist |-> <<"x">>]
T3 == [id |-> "t3", name |-> <<"b">>, artist |-> <<"x">>]
Catalog == {T1, T3}

\* The quality strings of a download request in the flows.
FlowQualities == {Q192, <<"9">>}

\* The 'ext' the search result entry announces, the extensions the backend
\* may give the file it writes, and the name of a partial file it may leave.
InfoExts == {"webm", "mp3"}
BackendExts == {"mp3", "m4a", "opus"}
partial_file(outtmpl) == SubSeq(outtmpl, 1, Len(outtmpl) - 1) \o <<"m4a", ".", "part">>

\* The track descriptors two calls of download_track are named for: names of
\* up to MaxNameLen characters, among them one that is illegal in a file name.
NameChars == {"a", "b", "/"}
TrackNames == SeqsUpTo(NameChars, MaxNameLen) \ {<< >>}
ArtistNames == {<<"x">>, <<"y">>}
TrackIds == {"t1", "t2"}
NamedTracks == [id : TrackIds, name : TrackNames, artist : ArtistNames]

\* What ydl.extract_info(..., download=False) may return.
SR_NONE == [is_none |-> TRUE, has_entries |-> FALSE, entries |-> << >>]
SR_NO_KEY == [is_none |-> FALSE, has_entries |-> FALSE, entries |-> << >>]
SR_EMPTY == [is_none |-> FALSE, has_entries |-> TRUE, entries |-> << >>]
SR_FOUND == [is_none |-> FALSE, has_entries |-> TRUE, entries |-> <<"video_info">>]
SearchResults == {SR_NONE, SR_NO_KEY, SR_EMPTY, SR_FOUND}

\* A test of the search result that only looks for None.
no_results_only_none(sr) == sr.is_none

\* not search_results or 'entries' not in search_results or not search_results['entries']
no_results(sr) == sr.is_none \/ ~sr.has_entries \/ sr.entries = << >>

\* --------------------------------------------------------------- state
\* start_playlist_download and start_album_download are the same code but for
\* the text of their messages; one set of actions models both. The tracks of
\* the collection are drawn when the loop reads them; their number is drawn
\* at the start.
VARIABLES
    pc,          \* per user: where the handler coroutine stands
    coll,        \* per user: the locals of start_playlist_download / start_album_download
    stats,       \* per user: what the flow has done so far (calls made, results, messages)
    jobs,        \* the download_track calls: the one awaited, those whose worker still
                 \* runs, and those that ended since the flow's last step
    files,       \* the files under download_dir
    quality_in,  \* the argument of a call of _get_ydl_options on its own
    ydl_out,     \* its result
    name_in,     \* the arguments of two calls of download_track, for their naming
    name_out,    \* the output templates the two calls built
    ws,          \* the workspace directory and the last cleanup call made on it
    url_in,      \* the argument of a call of extract_spotify_id on its own
    id_out,      \* its result
    session,     \* per user: context.user_data
    view,        \* per user: the last text the handlers gave the transport for the
                 \* bot's message, and whether the transport took it
    update,      \* per user: the update handled last
    bar,         \* the progress lines of a collection of a given length, on their own
    filename_in, \* the argument of a call of sanitize_filename on its own
    sanitized_out, \* its result
    menus        \* per user: the items whose menus the chat holds

vars == <<pc, coll, stats, jobs, files, quality_in, ydl_out, name_in, name_out, ws, url_in, id_out, session, view, update, bar,
         filename_in, sanitized_out, menus>>

NoTrack == [id |-> "", name |-> << >>, artist |-> << >>]
NoColl == [total_tracks |-> 0, quality |-> None, i |-> 0, track |-> NoTrack, success_count |-> 0]
NoStats == [calls |-> 0, successes |-> 0, sent |-> 0, summaries |-> << >>]
NotCalled == [format |-> ""]
NoNaming == <<[track |-> NoTrack, quality |-> None], [track |-> NoTrack, quality |-> None]>>
NotNamed == << >>
\* The directory made by __init__ exists; no cleanup call has been made.
NoWs == [dir_exists |-> TRUE, op |-> "", path |-> None, before |-> {}, had_dir |-> TRUE,
         failed |-> {}, raised |-> FALSE, late |-> {}, calls |-> 0]
\* No call of extract_spotify_id has been made.
NotExtracted == [id |-> None, kind |-> "", called |-> FALSE]
\* What stands for None where get_playlist_info / get_album_info return it, as
\* NoTrack does for get_track_info.
NoCollection == [id |-> "", total_tracks |-> 0]
\* An empty context.user_data: .get() of each key gives None.
NoSession == [current_track |-> NoTrack, current_playlist |-> NoCollection,
              current_album |-> NoCollection]
\* No message of the bot is on screen.
NoView == [text |-> "", i |-> 0, shown |-> FALSE]
\* No call of sanitize_filename has been made.
NotSanitized == [called |-> FALSE, value |-> << >>]
\* No progress line has been built.
NoBar == [total_tracks |-> 0, lines |-> << >>]
\* No update has been handled.
NoItem == [kind |-> "", id |-> ""]
NoUpdate == [n |-> 0, kind |-> "", data |-> None, info |-> "", route |-> "", answered |-> FALSE,
             pressed |-> NoItem, item |-> NoItem]

Init ==
    /\ pc = [u \in Users |-> "idle"]
    /\ coll = [u \in Users |-> NoColl]
    /\ stats = [u \in Users |-> NoStats]
    /\ jobs = {}
    /\ files = {}
    /\ quality_in = None
    /\ ydl_out = NotCalled
    /\ name_in = NoNaming
    /\ name_out = NotNamed
    /\ ws = NoWs
    /\ url_in = None
    /\ id_out = NotExtracted
    /\ session = [u \in Users |-> NoSession]
    /\ view = [u \in Users |-> NoView]
    /\ update = [u \in Users |-> NoUpdate]
    /\ bar = NoBar
    /\ filename_in = None
    /\ sanitized_out = NotSanitized
    /\ menus = [u \in Users |-> {}]

\* -------------------------------------------------- download_track: caller
\* asyncio.wait_for without its timeout.
wait_for_no_timer == TIMEOUT + TickStep

\* asyncio.wait_for(..., timeout=60): the delay after which its timer is due.
wait_for_timeout == TIMEOUT

\* download_track up to its await: the query, the options, the output template,
\* and the hand-over of _download_audio to the executor.
NewJob(u, idx, track, quality) ==
    [owner |-> u,
     idx |-> idx,
     search_query |-> search_query_of(track),
     ydl_opts |-> get_ydl_options(quality),
     outtmpl |-> outtmpl_of(track),
     wpc |-> "searching",
     searches |-> 0,
     search_results |-> SR_FOUND,
     downloads |-> 0,
     expected_path |-> None,
     wrote |-> {},
     scanned |-> FALSE,
     listing |-> << >>,
     seen |-> {},
     ret |-> None,
     why |-> "",
     caller |-> "awaiting",
     elapsed |-> 0,
     timed_out |-> FALSE,
     result |-> None]

\* Lines 61-66: the worker's value, if it names a file that exists.
checked_result(fs, file_path) ==
    IF file_path # None /\ exists(fs, file_path) THEN file_path ELSE None

\* A call that has returned and whose worker has ended.
Over(job) == job.caller = "returned" /\ job.wpc = "finished"

\* ------------------------------------------- _download_audio: the worker
\* A worker whose caller timed out hands its value to nobody: its record
\* goes when it ends.
SetJob(job, r) ==
    jobs' = (jobs \ {job}) \cup (IF Over(r) /\ r.timed_out THEN {} ELSE {r})

Finish(job, ret, why) == [job EXCEPT !.wpc = "finished", !.ret = ret, !.why = why]

\* A search that is tried again when it raises.
WorkerSearch_retries(job) ==
    /\ job.wpc = "searching"
    /\ \/ \E sr \in SearchResults :
            LET searched == [job EXCEPT !.searches = @ + 1, !.search_results = sr]
            IN IF no_results(sr)
               THEN SetJob(job, Finish(searched, None, "noresults"))
               ELSE SetJob(job, [searched EXCEPT !.wpc = "downloading"])
       \/ SetJob(job, [job EXCEPT !.searches = @ + 1])
    /\ UNCHANGED <<pc, coll, stats, files, quality_in, ydl_out, name_in, name_out, ws, url_in, id_out, session, view, update, bar, filename_in, sanitized_out, menus>>

\* Lines 90-101: the search; no result ends the call, an exception ends it
\* in the handler of line 124.
WorkerSearch(job) ==
    /\ job.wpc = "searching"
    /\ \/ \E sr \in SearchResults :
            LET searched == [job EXCEPT !.searches = @ + 1, !.search_results = sr]
            IN IF no_results(sr)
               THEN SetJob(job, Finish(searched, None, "noresults"))
               ELSE SetJob(job, [searched EXCEPT !.wpc = "downloading"])
       \/ SetJob(job, Finish([job EXCEPT !.searches = @ + 1], None, "error"))
    /\ UNCHANGED <<pc, coll, stats, files, quality_in, ydl_out, name_in, name_out, ws, url_in, id_out, session, view, update, bar, filename_in, sanitized_out, menus>>

\* Line 104: ydl.download. The backend writes the file under the template with
\* an extension of its choice, or returns having left none, or raises (and may
\* leave a partial file).
WorkerDownload(job) ==
    /\ job.wpc = "downloading"
    /\ LET called == [job EXCEPT !.downloads = @ + 1]
           part == partial_file(job.outtmpl)
       IN \/ \E e \in BackendExts :
                LET f == prepare_filename(job.outtmpl, [ext |-> e])
                IN /\ files' = files \cup {f}
                   /\ SetJob(job, [called EXCEPT !.wpc = "reconciling", !.wrote = @ \cup {f}])
          \/ /\ files' = files
             /\ SetJob(job, [called EXCEPT !.wpc = "reconciling"])
          \/ /\ files' = files
             /\ SetJob(job, Finish(called, None, "error"))
          \/ /\ files' = files \cup {part}
             /\ SetJob(job, Finish([called EXCEPT !.wrote = @ \cup {part}], None, "error"))
    /\ UNCHANGED <<pc, coll, stats, quality_in, ydl_out, name_in, name_out, ws, url_in, id_out, session, view, update, bar, filename_in, sanitized_out, menus>>

\* Lines 107-110
base_path_of(expected_path) == splitext_root(expected_path)

\* Lines 106-122: find the downloaded file. The extension of the entry found
\* by the search is drawn here, where prepare_filename first reads it.
WorkerReconcile(job, ext) ==
    /\ job.wpc = "reconciling"
    /\ LET expected_path == prepare_filename(job.outtmpl, [ext |-> ext])
           snap == [job EXCEPT !.seen = files, !.expected_path = expected_path]
           base_path == base_path_of(expected_path)
           p == probe(files, base_path)
       IN IF p # None
          THEN SetJob(job, Finish(snap, p, "found"))
          ELSE \E l \in Listings(listdir(files)) :
                   LET s == scan(l, base_path)
                   IN SetJob(job, Finish([snap EXCEPT !.scanned = TRUE, !.listing = l], s,
                                         IF s = None THEN "notfound" ELSE "found"))
    /\ UNCHANGED <<pc, coll, stats, files, quality_in, ydl_out, name_in, name_out, ws, url_in, id_out, session, view, update, bar, filename_in, sanitized_out, menus>>

\* ----------------------------------------------------------------- time
Awaiting == {job \in jobs : job.caller = "awaiting"}

\* Time passes for the calls being awaited, up to the moment a timer is due.
Tick ==
    /\ Awaiting # {}
    /\ \A job \in Awaiting : job.elapsed < wait_for_timeout
    /\ jobs' = {IF job \in Awaiting
                THEN [job EXCEPT !.elapsed = Min({@ + TickStep, wait_for_timeout})]
                ELSE job : job \in jobs}
    /\ UNCHANGED <<pc, coll, stats, files, quality_in, ydl_out, name_in, name_out, ws, url_in, id_out, session, view, update, bar, filename_in, sanitized_out, menus>>

\* ------------------------------ start_playlist_download / start_album_download
\* The end of one pass of the loop body: on to the next track, or to the summary.
Continue(u, c) ==
    /\ coll' = [coll EXCEPT ![u] = [c EXCEPT !.i = @ + 1, !.track = NoTrack]]
    /\ pc' = [pc EXCEPT ![u] = IF c.i + 1 <= c.total_tracks THEN "progress" ELSE "summary"]

\* edit_message_text / reply_text: the text given to the transport, and whether
\* the transport took it (it raises otherwise).
Show(u, text, i, ok) == view' = [view EXCEPT ![u] = [text |-> text, i |-> i, shown |-> ok]]

\* Lines 707-719 (761-773): the locals and the first message, which may fail
\* in the transport; nothing catches that.
start_collection_download(u, total_tracks, quality) ==
    \/ /\ Continue(u, [NoColl EXCEPT !.total_tracks = total_tracks, !.quality = quality])
       /\ Show(u, "starting", 0, TRUE)
    \/ /\ pc' = [pc EXCEPT ![u] = "raised"]
       /\ coll' = coll
       /\ Show(u, "starting", 0, FALSE)

\* The flow on its own, whatever led to it.
StartCollection(u, total_tracks, quality) ==
    /\ pc[u] = "idle"
    /\ start_collection_download(u, total_tracks, quality)
    /\ UNCHANGED <<stats, jobs, files, quality_in, ydl_out, name_in, name_out, ws, url_in, id_out, session, update, bar, filename_in, sanitized_out, menus>>

\* A loop body that starts the download and does not wait for it.
Progress_no_await(u, track) ==
    /\ pc[u] = "progress"
    /\ jobs' = {job \in jobs : ~Over(job)} \cup {NewJob(u, coll[u].i, track, coll[u].quality)}
    /\ Continue(u, coll[u])
    /\ Show(u, "progress", coll[u].i, TRUE)
    /\ stats' = [stats EXCEPT ![u].calls = @ + 1]
    /\ UNCHANGED <<files, quality_in, ydl_out, name_in, name_out, ws, url_in, id_out, session, update, bar, filename_in, sanitized_out, menus>>

\* A loop body that calls download_track without the progress message.
Progress_unannounced(u, track) ==
    /\ pc[u] = "progress"
    /\ jobs' = {job \in jobs : ~Over(job)} \cup {NewJob(u, coll[u].i, track, coll[u].quality)}
    /\ coll' = [coll EXCEPT ![u].track = track]
    /\ stats' = [stats EXCEPT ![u].calls = @ + 1]
    /\ pc' = [pc EXCEPT ![u] = "await"]
    /\ UNCHANGED <<files, quality_in, ydl_out, name_in, name_out, ws, url_in, id_out, session, view, update, bar, filename_in, sanitized_out, menus>>

\* Lines 721-733 (775-787): the progress message of track i, then the call of
\* download_track up to its await. A transport failure of the message is
\* caught by line 746 (800), which moves on to the next track.
Progress(u, track) ==
    /\ pc[u] = "progress"
    /\ jobs' = {job \in jobs : ~Over(job)} \cup {NewJob(u, coll[u].i, track, coll[u].quality)}
    /\ coll' = [coll EXCEPT ![u].track = track]
    /\ stats' = [stats EXCEPT ![u].calls = @ + 1]
    /\ pc' = [pc EXCEPT ![u] = "await"]
    /\ Show(u, "progress", coll[u].i, TRUE)
    /\ UNCHANGED <<files, quality_in, ydl_out, name_in, name_out, ws, url_in, id_out, session, update, bar, filename_in, sanitized_out, menus>>

ProgressFails(u) ==
    /\ pc[u] = "progress"
    /\ Continue(u, coll[u])
    /\ Show(u, "progress", coll[u].i, FALSE)
    /\ jobs' = {job \in jobs : ~Over(job)}
    /\ UNCHANGED <<stats, files, quality_in, ydl_out, name_in, name_out, ws, url_in, id_out, session, update, bar, filename_in, sanitized_out, menus>>

\* The call of download_track the flow of u is suspended in.
Current(u) == CHOOSE job \in jobs : job.owner = u /\ job.caller = "awaiting"

\* Lines 735-738 (789-792) after download_track returned file_path.
Returned(u, file_path) ==
    /\ stats' = [stats EXCEPT ![u].successes = @ + (IF file_path # None THEN 1 ELSE 0)]
    /\ IF file_path # None
       THEN pc' = [pc EXCEPT ![u] = "send"] /\ coll' = coll
       ELSE Continue(u, coll[u])

\* A call that returns what its worker has so far, without waiting for its end.
DownloadReturns_early(u) ==
    /\ pc[u] = "await"
    /\ LET job == Current(u)
           r == checked_result(files, job.ret)
       IN /\ SetJob(job, [job EXCEPT !.caller = "returned", !.result = r])
          /\ Returned(u, r)
    /\ UNCHANGED <<files, quality_in, ydl_out, name_in, name_out, ws, url_in, id_out, session, view, update, bar, filename_in, sanitized_out, menus>>

\* Lines 51-66: the worker's value arrives before the timer is due.
DownloadReturns(u) ==
    /\ pc[u] = "await"
    /\ LET job == Current(u)
           r == checked_result(files, job.ret)
       IN /\ job.wpc = "finished"
          /\ SetJob(job, [job EXCEPT !.caller = "returned", !.result = r])
          /\ Returned(u, r)
    /\ UNCHANGED <<files, quality_in, ydl_out, name_in, name_out, ws, url_in, id_out, session, view, update, bar, filename_in, sanitized_out, menus>>

\* A timeout branch that returns the declared output path.
DownloadTimesOut_returns_template(u) ==
    /\ pc[u] = "await"
    /\ LET job == Current(u)
       IN /\ job.wpc # "finished"
          /\ job.elapsed >= wait_for_timeout
          /\ SetJob(job, [job EXCEPT !.caller = "returned", !.result = job.outtmpl, !.timed_out = TRUE])
          /\ Returned(u, job.outtmpl)
    /\ UNCHANGED <<files, quality_in, ydl_out, name_in, name_out, ws, url_in, id_out, session, view, update, bar, filename_in, sanitized_out, menus>>

\* Lines 68-70: the timer is due first; the worker is left running.
DownloadTimesOut(u) ==
    /\ pc[u] = "await"
    /\ LET job == Current(u)
       IN /\ job.wpc # "finished"
          /\ job.elapsed >= wait_for_timeout
          /\ SetJob(job, [job EXCEPT !.caller = "returned", !.result = None, !.timed_out = TRUE])
          /\ Returned(u, None)
    /\ UNCHANGED <<files, quality_in, ydl_out, name_in, name_out, ws, url_in, id_out, session, view, update, bar, filename_in, sanitized_out, menus>>

\* A delivery step that counts the track before send_audio is known to succeed.
SendAudio_counts_first(u) ==
    /\ pc[u] = "send"
    /\ \/ /\ Continue(u, [coll[u] EXCEPT !.success_count = @ + 1])
          /\ stats' = [stats EXCEPT ![u].sent = @ + 1]
       \/ /\ Continue(u, [coll[u] EXCEPT !.success_count = @ + 1])
          /\ stats' = stats
    /\ UNCHANGED <<jobs, files, quality_in, ydl_out, name_in, name_out, ws, url_in, id_out, session, view, update, bar, filename_in, sanitized_out, menus>>

\* Lines 736-744 (790-798): send_audio, then the count; a failure of the
\* transport is caught by line 746 (800).
SendAudio(u) ==
    /\ pc[u] = "send"
    /\ \/ /\ Continue(u, [coll[u] EXCEPT !.success_count = @ + 1])
          /\ stats' = [stats EXCEPT ![u].sent = @ + 1]
       \/ /\ Continue(u, coll[u])
          /\ stats' = stats
    /\ UNCHANGED <<jobs, files, quality_in, ydl_out, name_in, name_out, ws, url_in, id_out, session, view, update, bar, filename_in, sanitized_out, menus>>

\* Lines 750-757 (804-811): the final summary, which may fail in the transport.
Summary(u) ==
    /\ pc[u] = "summary"
    /\ \/ /\ stats' = [stats EXCEPT ![u].summaries =
                         Append(@, [success_count |-> coll[u].success_count,
                                    total_tracks |-> coll[u].total_tracks])]
          /\ pc' = [pc EXCEPT ![u] = "done"]
          /\ Show(u, "summary", 0, TRUE)
       \/ /\ stats' = stats
          /\ pc' = [pc EXCEPT ![u] = "raised"]
          /\ Show(u, "summary", 0, FALSE)
    /\ jobs' = {job \in jobs : ~Over(job)}
    /\ UNCHANGED <<coll, files, quality_in, ydl_out, name_in, name_out, ws, url_in, id_out, session, update, bar, filename_in, sanitized_out, menus>>

Next ==
    \/ \E u \in Users, total_tracks \in 0..MaxTracks, quality \in FlowQualities :
           StartCollection(u, total_tracks, quality)
    \/ \E u \in Users, track \in Catalog : Progress(u, track)
    \/ \E u \in Users : ProgressFails(u)
    \/ \E u \in Users : DownloadReturns(u)
    \/ \E u \in Users : DownloadTimesOut(u)
    \/ \E u \in Users : SendAudio(u)
    \/ \E u \in Users : Summary(u)
    \/ \E job \in jobs : WorkerSearch(job)
    \/ \E job \in jobs : WorkerDownload(job)
    \/ \E job \in jobs, ext \in InfoExts : WorkerReconcile(job, ext)
    \/ Tick

Spec == Init /\ [][Next]_vars

\* ------------------------------------------ _get_ydl_options on its own
InitOptions ==
    /\ pc = [u \in Users |-> "idle"]
    /\ coll = [u \in Users |-> NoColl]
    /\ stats = [u \in Users |-> NoStats]
    /\ jobs = {}
    /\ files = {}
    /\ quality_in \in QualityStrings
    /\ ydl_out = NotCalled
    /\ name_in = NoNaming
    /\ name_out = NotNamed
    /\ ws = NoWs
    /\ url_in = None
    /\ id_out = NotExtracted
    /\ session = [u \in Users |-> NoSession]
    /\ view = [u \in Users |-> NoView]
    /\ update = [u \in Users |-> NoUpdate]
    /\ bar = NoBar
    /\ filename_in = None
    /\ sanitized_out = NotSanitized
    /\ menus = [u \in Users |-> {}]

CallGetYdlOptions ==
    /\ ydl_out = NotCalled
    /\ ydl_out' = get_ydl_options(quality_in)
    /\ UNCHANGED <<pc, coll, stats, jobs, files, quality_in, name_in, name_out, ws, url_in, id_out, session, view, update, bar, filename_in, sanitized_out, menus>>

NextOptions == CallGetYdlOptions

SpecOptions == InitOptions /\ [][NextOptions]_vars

\* ------------------------------------------- cleanup_file / cleanup_all
\* A path that is a directory: some file lies below it.
isdir(fs, p) == \E f \in fs : IsPrefix(p \o <<"/">>, f)

\* The files directly in the workspace directory.
TopFiles(fs) == {f \in fs : \E e \in listdir(fs) : f = path_join(download_dir, e)}

\* A cleanup_file without its try block: a failed removal reaches the caller.
cleanup_file_unguarded(fs, file_path) ==
    IF exists(fs, file_path)
    THEN {[files |-> fs \ {file_path}, failed |-> {}, raised |-> FALSE],
          [files |-> fs, failed |-> {file_path}, raised |-> TRUE]}
    ELSE IF isdir(fs, file_path)
    THEN {[files |-> fs, failed |-> {file_path}, raised |-> TRUE]}
    ELSE {[files |-> fs, failed |-> {}, raised |-> FALSE]}

\* Lines 176-181, as the set of its outcomes: os.remove takes the file away, or
\* raises (always so for a directory) and the handler of line 180 logs it.
cleanup_file(fs, file_path) ==
    IF exists(fs, file_path)
    THEN {[files |-> fs \ {file_path}, failed |-> {}, raised |-> FALSE],
          [files |-> fs, failed |-> {file_path}, raised |-> FALSE]}
    ELSE IF isdir(fs, file_path)
    THEN {[files |-> fs, failed |-> {file_path}, raised |-> FALSE]}
    ELSE {[files |-> fs, failed |-> {}, raised |-> FALSE]}

\* Lines 186-188: cleanup_file on every listed entry, one after the other.
RECURSIVE cleanup_each(_, _)
cleanup_each(entries, outcomes) ==
    IF entries = {} THEN outcomes
    ELSE LET file == CHOOSE e \in entries : TRUE
             file_path == path_join(download_dir, file)
         IN cleanup_each(entries \ {file},
                UNION {{[files |-> r.files, failed |-> o.failed \cup r.failed, raised |-> FALSE] :
                           r \in cleanup_file(o.files, file_path)} : o \in outcomes})

\* os.rmdir(self.download_dir): raises unless the directory is empty.
rmdir_ok(fs) == listdir(fs) = {}

\* A cleanup_all without its try block.
cleanup_all_unguarded(fs, dir_exists, late) ==
    IF ~dir_exists
    THEN {[files |-> fs, failed |-> {}, raised |-> TRUE, dir_exists |-> FALSE, late |-> {}]}
    ELSE {[files |-> o.files \cup late, failed |-> o.failed, raised |-> ~rmdir_ok(o.files \cup late),
           dir_exists |-> ~rmdir_ok(o.files \cup late), late |-> late] :
             o \in cleanup_each(listdir(fs), {[files |-> fs, failed |-> {}, raised |-> FALSE]})}

\* A cleanup_all that ends with shutil.rmtree in place of os.rmdir.
cleanup_all_rmtree(fs, dir_exists, late) ==
    IF ~dir_exists
    THEN {[files |-> fs, failed |-> {}, raised |-> FALSE, dir_exists |-> FALSE, late |-> {}]}
    ELSE {[files |-> {f \in o.files \cup late : ~IsPrefix(download_dir \o <<"/">>, f)},
           failed |-> o.failed, raised |-> FALSE, dir_exists |-> FALSE, late |-> late] :
             o \in cleanup_each(listdir(fs), {[files |-> fs, failed |-> {}, raised |-> FALSE]})}

\* Lines 185-192, as the set of its outcomes: os.listdir raises when the
\* directory is gone, os.rmdir when it is not empty; line 191 logs either.
\* late is what the workers still running write after os.listdir of line 186
\* has read the directory and before os.rmdir of line 189 is called: the loop
\* of line 187 does not see it.
cleanup_all(fs, dir_exists, late) ==
    IF ~dir_exists
    THEN {[files |-> fs, failed |-> {}, raised |-> FALSE, dir_exists |-> FALSE, late |-> {}]}
    ELSE {[files |-> o.files \cup late, failed |-> o.failed, raised |-> FALSE,
           dir_exists |-> ~rmdir_ok(o.files \cup late), late |-> late] :
             o \in cleanup_each(listdir(fs), {[files |-> fs, failed |-> {}, raised |-> FALSE]})}

\* The files downloads may have left in the workspace: those of T1 and T3 and
\* of a track whose name holds a '/', with the backend's extensions.
TSlash == [id |-> "t4", name |-> <<"a", "/", "b">>, artist |-> <<"x">>]
WorkspaceExts == {"mp3", "m4a"}
PossibleFiles ==
    {prepare_filename(outtmpl_of(t), [ext |-> e]) : t \in {T1, T3, TSlash}, e \in WorkspaceExts}
        \cup {partial_file(outtmpl_of(T1))}

\* The paths cleanup_file is called with.
CleanupPaths == PossibleFiles \cup {path_join(download_dir, <<"a">>)}

\* What a worker still running writes while cleanup_all runs: nothing, or one
\* of its files.
LateWrites == {{}} \cup {{f} : f \in PossibleFiles}

InitCleanup ==
    /\ pc = [u \in Users |-> "idle"]
    /\ coll = [u \in Users |-> NoColl]
    /\ stats = [u \in Users |-> NoStats]
    /\ jobs = {}
    /\ files \in {F \in SUBSET PossibleFiles : Cardinality(F) <= MaxWorkspaceFiles}
    /\ quality_in = None
    /\ ydl_out = NotCalled
    /\ name_in = NoNaming
    /\ name_out = NotNamed
    /\ ws = NoWs
    /\ url_in = None
    /\ id_out = NotExtracted
    /\ session = [u \in Users |-> NoSession]
    /\ view = [u \in Users |-> NoView]
    /\ update = [u \in Users |-> NoUpdate]
    /\ bar = NoBar
    /\ filename_in = None
    /\ sanitized_out = NotSanitized
    /\ menus = [u \in Users |-> {}]

CleanupFile(file_path) ==
    /\ ws.calls < MaxCleanupCalls
    /\ \E o \in cleanup_file(files, file_path) :
          /\ files' = o.files
          /\ ws' = [ws EXCEPT !.op = "cleanup_file", !.path = file_path, !.before = files,
                              !.had_dir = ws.dir_exists, !.failed = o.failed,
                              !.raised = o.raised, !.late = {}, !.calls = @ + 1]
    /\ UNCHANGED <<pc, coll, stats, jobs, quality_in, ydl_out, name_in, name_out, url_in, id_out, session, view, update, bar, filename_in, sanitized_out, menus>>

CleanupAll ==
    /\ ws.calls < MaxCleanupCalls
    /\ \E late \in LateWrites : \E o \in cleanup_all(files, ws.dir_exists, late) :
          /\ files' = o.files
          /\ ws' = [ws EXCEPT !.op = "cleanup_all", !.path = None, !.before = files,
                              !.had_dir = ws.dir_exists, !.dir_exists = o.dir_exists,
                              !.failed = o.failed, !.raised = o.raised, !.late = o.late,
                              !.calls = @ + 1]
    /\ UNCHANGED <<pc, coll, stats, jobs, quality_in, ydl_out, name_in, name_out, url_in, id_out, session, view, update, bar, filename_in, sanitized_out, menus>>

NextCleanup ==
    \/ \E file_path \in CleanupPaths : CleanupFile(file_path)
    \/ CleanupAll

SpecCleanup == InitCleanup /\ [][NextCleanup]_vars

\* --------------------------------- the naming of download_track on its own
InitNaming ==
    /\ pc = [u \in Users |-> "idle"]
    /\ coll = [u \in Users |-> NoColl]
    /\ stats = [u \in Users |-> NoStats]
    /\ jobs = {}
    /\ files = {}
    /\ quality_in = None
    /\ ydl_out = NotCalled
    /\ name_in \in [1..2 -> [track : NamedTracks, quality : FlowQualities]]
    /\ name_out = NotNamed
    /\ ws = NoWs
    /\ url_in = None
    /\ id_out = NotExtracted
    /\ session = [u \in Users |-> NoSession]
    /\ view = [u \in Users |-> NoView]
    /\ update = [u \in Users |-> NoUpdate]
    /\ bar = NoBar
    /\ filename_in = None
    /\ sanitized_out = NotSanitized
    /\ menus = [u \in Users |-> {}]

\* Lines 36-46 of two calls of download_track: the output template each builds.
CallNaming ==
    /\ name_out = NotNamed
    /\ name_out' = [k \in 1..2 |->
                       NewJob(CHOOSE u \in Users : TRUE, k, name_in[k].track, name_in[k].quality).outtmpl]
    /\ UNCHANGED <<pc, coll, stats, jobs, files, quality_in, ydl_out, name_in, ws, url_in, id_out, session, view, update, bar, filename_in, sanitized_out, menus>>

NextNaming == CallNaming

SpecNaming == InitNaming /\ [][NextNaming]_vars

\* ---------------------------------------------------- extract_spotify_id
\* A link is a sequence of tokens: words of letters and digits, and single
\* characters that are neither.
KINDS == <<"track", "playlist", "album">>

AlnumTokens == {"x", "spotify", "com", "track", "playlist", "album", "artist", "https", "open"}

\* r'spotify\.com/<kind>/' before its group
web_pattern(content_type) == <<"spotify", ".", "com", "/", content_type, "/">>

\* r'spotify:<kind>:' before its group
uri_pattern(content_type) == <<"spotify", ":", content_type, ":">>

\* The positions where the literal part of a pattern lies in the text with at
\* least one character of [a-zA-Z0-9] after it.
match_starts(lit, url) ==
    {i \in 1..Len(url) :
        /\ i + Len(lit) <= Len(url)
        /\ SubSeq(url, i, i + Len(lit) - 1) = lit
        /\ url[i + Len(lit)] \in AlnumTokens}

\* ([a-zA-Z0-9]+) from position k: the longest run.
group_from(url, k) ==
    LET stop == Min({j \in k..Len(url) + 1 : j = Len(url) + 1 \/ url[j] \notin AlnumTokens})
    IN SubSeq(url, k, stop - 1)

\* re.search(pattern, url) and match.group(1): the leftmost match, or None.
re_search(lit, url) ==
    IF match_starts(lit, url) = {} THEN None
    ELSE group_from(url, Min(match_starts(lit, url)) + Len(lit))

\* The dicts of lines 1089-1100, in their order.
patterns == [n \in 1..Len(KINDS) |-> web_pattern(KINDS[n])]
uri_patterns == [n \in 1..Len(KINDS) |-> uri_pattern(KINDS[n])]

\* The first pattern of a dict, in its order, that matches.
first_match(dict, url) ==
    LET hits == {n \in 1..Len(KINDS) : re_search(dict[n], url) # None}
    IN IF hits = {} THEN 0 ELSE Min(hits)

\* A lookup that tries the URI patterns before the web patterns.
extract_spotify_id_uri_first(url) ==
    LET w == first_match(patterns, url)
        u == first_match(uri_patterns, url)
    IN IF u # 0 THEN [id |-> re_search(uri_pattern(KINDS[u]), url), kind |-> KINDS[u], called |-> TRUE]
       ELSE IF w # 0 THEN [id |-> re_search(web_pattern(KINDS[w]), url), kind |-> KINDS[w], called |-> TRUE]
       ELSE [id |-> None, kind |-> "", called |-> TRUE]

\* Lines 1087-1123; kind "" stands for a content type of None.
extract_spotify_id(url) ==
    LET w == first_match(patterns, url)
        u == first_match(uri_patterns, url)
    IN IF w # 0 THEN [id |-> re_search(web_pattern(KINDS[w]), url), kind |-> KINDS[w], called |-> TRUE]
       ELSE IF u # 0 THEN [id |-> re_search(uri_pattern(KINDS[u]), url), kind |-> KINDS[u], called |-> TRUE]
       ELSE [id |-> None, kind |-> "", called |-> TRUE]

\* Most pieces a link text is put together from.
MaxUrlChunks == 3

\* The pieces links are made of here: the start of a web address, the three
\* web forms, the three URI forms, a web form of another kind, a character of
\* an id and a character that ends one.
UrlChunks ==
    {<<"https", ":", "/", "/", "open", ".">>, <<"spotify", ".", "com", "/", "artist", "/">>,
     <<"x">>, <<"?">>}
    \cup {web_pattern(KINDS[n]) : n \in 1..Len(KINDS)}
    \cup {uri_pattern(KINDS[n]) : n \in 1..Len(KINDS)}

RECURSIVE Concat(_)
Concat(ss) == IF ss = << >> THEN << >> ELSE Head(ss) \o Concat(Tail(ss))

Urls == {Concat(cs) : cs \in SeqsUpTo(UrlChunks, MaxUrlChunks)}

InitLinks ==
    /\ pc = [u \in Users |-> "idle"]
    /\ coll = [u \in Users |-> NoColl]
    /\ stats = [u \in Users |-> NoStats]
    /\ jobs = {}
    /\ files = {}
    /\ quality_in = None
    /\ ydl_out = NotCalled
    /\ name_in = NoNaming
    /\ name_out = NotNamed
    /\ ws = NoWs
    /\ url_in \in Urls
    /\ id_out = NotExtracted
    /\ session = [u \in Users |-> NoSession]
    /\ view = [u \in Users |-> NoView]
    /\ update = [u \in Users |-> NoUpdate]
    /\ bar = NoBar
    /\ filename_in = None
    /\ sanitized_out = NotSanitized
    /\ menus = [u \in Users |-> {}]

CallExtract ==
    /\ ~id_out.called
    /\ id_out' = extract_spotify_id(url_in)
    /\ UNCHANGED <<pc, coll, stats, jobs, files, quality_in, ydl_out, name_in, name_out, ws, url_in, session, view, update, bar, filename_in, sanitized_out, menus>>

NextLinks == CallExtract

SpecLinks == InitLinks /\ [][NextLinks]_vars

\* ------------------------------------------------- messages and buttons
\* An edit_text / reply_text call the transport took, and one it refused (the
\* call raises).
Sent(text) == [text |-> text, i |-> 0, shown |-> TRUE]
Refused(text) == [text |-> text, i |-> 0, shown |-> FALSE]

\* sub in s
contains(s, sub) ==
    \E i \in 1..Len(s) : i + Len(sub) - 1 <= Len(s) /\ SubSeq(s, i, i + Len(sub) - 1) = sub

\* The value of a handler: the session it leaves, the last text it gave the
\* transport, and whether an exception leaves it.
Outcome(sess, v, raised) == [session |-> sess, view |-> v, raised |-> raised]

\* The collections the metadata service knows.
C1 == [id |-> "c1", total_tracks |-> Len(<<T1>>)]
C2 == [id |-> "c2", total_tracks |-> Len(<<T3>>)]

\* A handle_playlist that stores what the lookup gave before it tests it.
handle_playlist_stores_first(sess, playlist_info) ==
    LET stored == [sess EXCEPT !.current_playlist = playlist_info]
    IN IF playlist_info = NoCollection
       THEN {Outcome(stored, Sent("playlist_not_found"), FALSE),
             Outcome(stored, Sent("playlist_error"), FALSE),
             Outcome(stored, Refused("playlist_error"), TRUE)}
       ELSE {Outcome(stored, Sent("playlist_menu"), FALSE),
             Outcome(stored, Sent("playlist_error"), FALSE),
             Outcome(stored, Refused("playlist_error"), TRUE)}

\* Lines 393-430, given what get_track_info returned (NoTrack for None; it
\* raises nothing, lines 850-899). The text of line 400 or of line 414 may be
\* refused; line 424 catches that and line 426 may be refused in turn.
handle_single_track(sess, track_info) ==
    IF track_info = NoTrack
    THEN {Outcome(sess, Sent("track_not_found"), FALSE),
          Outcome(sess, Sent("track_error"), FALSE),
          Outcome(sess, Refused("track_error"), TRUE)}
    ELSE LET stored == [sess EXCEPT !.current_track = track_info]
         IN {Outcome(stored, Sent("track_menu"), FALSE),
             Outcome(stored, Sent("track_error"), FALSE),
             Outcome(stored, Refused("track_error"), TRUE)}

\* Lines 432-478: the playlist is stored (line 469) after the menu was taken.
handle_playlist(sess, playlist_info) ==
    IF playlist_info = NoCollection
    THEN {Outcome(sess, Sent("playlist_not_found"), FALSE),
          Outcome(sess, Sent("playlist_error"), FALSE),
          Outcome(sess, Refused("playlist_error"), TRUE)}
    ELSE {Outcome([sess EXCEPT !.current_playlist = playlist_info], Sent("playlist_menu"), FALSE),
          Outcome(sess, Sent("playlist_error"), FALSE),
          Outcome(sess, Refused("playlist_error"), TRUE)}

\* Lines 480-526
handle_album(sess, album_info) ==
    IF album_info = NoCollection
    THEN {Outcome(sess, Sent("album_not_found"), FALSE),
          Outcome(sess, Sent("album_error"), FALSE),
          Outcome(sess, Refused("album_error"), TRUE)}
    ELSE {Outcome([sess EXCEPT !.current_album = album_info], Sent("album_menu"), FALSE),
          Outcome(sess, Sent("album_error"), FALSE),
          Outcome(sess, Refused("album_error"), TRUE)}

Routed(o, route) == [session |-> o.session, view |-> o.view, raised |-> o.raised, route |-> route]

\* Lines 359-391, given what the lookups return: the first reply, the id and
\* kind, the handler of the kind; line 385 catches what leaves it.
handle_spotify_url(sess, url, track_info, collection_info) ==
    LET x == extract_spotify_id(url)
        route == IF x.kind = "" THEN "unsupported" ELSE x.kind
        inner == CASE x.kind = "track" -> handle_single_track(sess, track_info)
                   [] x.kind = "playlist" -> handle_playlist(sess, collection_info)
                   [] x.kind = "album" -> handle_album(sess, collection_info)
                   [] OTHER -> {Outcome(sess, Sent("unsupported"), FALSE),
                                Outcome(sess, Refused("unsupported"), TRUE)}
    IN {Routed(Outcome(sess, Refused("analyzing"), TRUE), "")}
       \cup {Routed(o, route) : o \in {i \in inner : ~i.raised}}
       \cup UNION {{Routed(Outcome(o.session, Sent("went_wrong"), FALSE), route),
                    Routed(Outcome(o.session, Refused("went_wrong"), TRUE), route)} :
                      o \in {i \in inner : i.raised}}

\* A handle_message that hands every text to handle_spotify_url.
handle_message_no_gate(sess, text, track_info, collection_info) ==
    handle_spotify_url(sess, strip(text, {" "}), track_info, collection_info)

\* Lines 342-357
handle_message(sess, text, track_info, collection_info) ==
    LET message_text == strip(text, {" "})
    IN IF contains(message_text, <<"spotify", ".", "com">>)
       THEN handle_spotify_url(sess, message_text, track_info, collection_info)
       ELSE {Routed(Outcome(sess, Sent("invalid_link"), FALSE), "invalid"),
             Routed(Outcome(sess, Refused("invalid_link"), TRUE), "invalid")}

\* The texts users send: a web link and a URI of a track, web links of a
\* playlist, of an album and of an artist, and a text that is no link.
MessageTexts ==
    {<<"https", ":", "/", "/", "open", ".">> \o web_pattern("track") \o <<"x">>,
     uri_pattern("track") \o <<"x">>,
     web_pattern("playlist") \o <<"x">>,
     <<" ">> \o web_pattern("album") \o <<"x", "?">>,
     <<"spotify", ".", "com", "/", "artist", "/", "x">>,
     <<"x">>}

\* Most messages and button presses (Cancel apart) a user sends, and the
\* same where the menus of the chat are followed.
MaxUpdates == 2
MaxMenuUpdates == 3

\* str.split(sep)
RECURSIVE split(_, _)
split(s, sep) ==
    IF \A i \in DOMAIN s : s[i] # sep THEN <<s>>
    ELSE LET k == Min({i \in DOMAIN s : s[i] = sep})
         IN <<SubSeq(s, 1, k - 1)>> \o split(SubSeq(s, k + 1, Len(s)), sep)

\* str.replace(old, ""), old not empty
RECURSIVE remove_all(_, _)
remove_all(s, old) ==
    IF Len(s) < Len(old) THEN s
    ELSE IF SubSeq(s, 1, Len(old)) = old THEN remove_all(SubSeq(s, Len(old) + 1, Len(s)), old)
    ELSE <<Head(s)>> \o remove_all(Tail(s), old)

\* callback_data of the buttons: those of the quality menu (lines 1125-1156),
\* of the playlist and album menus (lines 445-455, 493-503) and of the main
\* menu, and data none of the menus makes.
QUALITY_ == <<"quality", "_">>
DOWNLOAD_ == <<"download", "_">>
DOWNLOAD_PLAYLIST_ == <<"download", "_", "playlist", "_">>
DOWNLOAD_ALBUM_ == <<"download", "_", "album", "_">>
MAIN_MENU == <<"main", "_", "menu">>
ButtonData ==
    {QUALITY_ \o q : q \in FlowQualities}
    \cup {DOWNLOAD_PLAYLIST_ \o <<"c1", "_">> \o Q192, DOWNLOAD_ALBUM_ \o <<"c1", "_">> \o Q192,
          DOWNLOAD_PLAYLIST_ \o <<"c1">>, DOWNLOAD_ \o <<"x">>, MAIN_MENU, <<"x">>}

\* The item a menu is made for, and the callback_data of its buttons: the
\* quality menu of a track (lines 417, 1125-1156) names the quality alone, the
\* menus of a playlist and of an album (lines 445-455, 493-503) name the id
\* and the quality.
Item(kind, info) == [kind |-> kind, id |-> info.id]
menu_buttons(item) ==
    CASE item.kind = "track" -> {QUALITY_ \o Q192}
      [] item.kind = "playlist" -> {DOWNLOAD_PLAYLIST_ \o <<item.id, "_">> \o Q192}
      [] item.kind = "album" -> {DOWNLOAD_ALBUM_ \o <<item.id, "_">> \o Q192}
      [] OTHER -> {}

\* What the handlers hand to the download a button starts (lines 628, 636,
\* 696-703): the track, playlist or album the session holds.
operand(sess, data) ==
    LET parts == split(data, "_")
    IN CASE IsPrefix(QUALITY_, data) /\ sess.current_track # NoTrack -> Item("track", sess.current_track)
         [] IsPrefix(DOWNLOAD_PLAYLIST_, data) /\ Len(parts) >= 4 /\ sess.current_playlist # NoCollection ->
                Item("playlist", sess.current_playlist)
         [] IsPrefix(DOWNLOAD_ALBUM_, data) /\ Len(parts) >= 4 /\ sess.current_album # NoCollection ->
                Item("album", sess.current_album)
         [] OTHER -> NoItem

Handled(u, kind, data, info, route, answered, pressed, item) ==
    update' = [update EXCEPT ![u] = [n |-> @.n + 1, kind |-> kind, data |-> data, info |-> info,
                                     route |-> route, answered |-> answered,
                                     pressed |-> pressed, item |-> item]]

\* handle_message for a text of u, and what the metadata service answers.
HandleMessage(u, text, track_info, collection_info) ==
    /\ pc[u] = "idle"
    /\ \E o \in handle_message(session[u], text, track_info, collection_info) :
          /\ session' = [session EXCEPT ![u] = o.session]
          /\ view' = [view EXCEPT ![u] = o.view]
          /\ menus' = [menus EXCEPT ![u] =
                          CASE o.view = Sent("track_menu") -> @ \cup {Item("track", track_info)}
                            [] o.view = Sent("playlist_menu") -> @ \cup {Item("playlist", collection_info)}
                            [] o.view = Sent("album_menu") -> @ \cup {Item("album", collection_info)}
                            [] OTHER -> @]
          /\ Handled(u, "message", text,
                     CASE o.route = "track" -> IF track_info = NoTrack THEN "none" ELSE "found"
                       [] o.route \in {"playlist", "album"} ->
                              IF collection_info = NoCollection THEN "none" ELSE "found"
                       [] OTHER -> "",
                     o.route, TRUE, NoItem, NoItem)
    /\ UNCHANGED <<pc, coll, stats, jobs, files, quality_in, ydl_out, name_in, name_out, ws, url_in, id_out, bar, filename_in, sanitized_out>>

\* A start_track_download that ends without a word when the download fails.
TrackFailed_silent(u) ==
    /\ pc' = [pc EXCEPT ![u] = "idle"]
    /\ view' = view

\* Lines 678-686: the handler of start_track_download; its message may be
\* refused, which nothing catches.
TrackFailed(u) ==
    /\ pc' = [pc EXCEPT ![u] = "idle"]
    /\ \/ view' = [view EXCEPT ![u] = Sent("failed")]
       \/ view' = [view EXCEPT ![u] = Refused("failed")]

\* Lines 638-652: the message, then download_track up to its await.
start_track_download(u, track_info, quality) ==
    \/ /\ view' = [view EXCEPT ![u] = Sent("downloading")]
       /\ jobs' = {job \in jobs : ~Over(job)} \cup {NewJob(u, 0, track_info, quality)}
       /\ pc' = [pc EXCEPT ![u] = "track_await"]
    \/ /\ view' = [view EXCEPT ![u] = Refused("downloading")]
       /\ jobs' = jobs
       /\ pc' = pc

\* A handle_quality_selection that returns without a word when no track is stored.
handle_quality_selection_silent(u, data) ==
    LET quality == remove_all(data, QUALITY_)
        track_info == session[u].current_track
    IN /\ IF track_info = NoTrack
          THEN UNCHANGED <<view, jobs, pc>>
          ELSE start_track_download(u, track_info, quality)
       /\ UNCHANGED <<coll, session>>

\* Lines 626-636
handle_quality_selection(u, data) ==
    LET quality == remove_all(data, QUALITY_)
        track_info == session[u].current_track
    IN /\ IF track_info = NoTrack
          THEN /\ \/ view' = [view EXCEPT ![u] = Sent("session_expired")]
                  \/ view' = [view EXCEPT ![u] = Refused("session_expired")]
               /\ UNCHANGED <<jobs, pc>>
          ELSE start_track_download(u, track_info, quality)
       /\ UNCHANGED <<coll, session>>

\* Lines 688-703: no branch answers data of another shape or a collection
\* that is not stored.
handle_download_request(u, data) ==
    LET parts == split(data, "_")
        quality == parts[Len(parts)]
        stored == IF IsPrefix(DOWNLOAD_PLAYLIST_, data) THEN session[u].current_playlist
                  ELSE IF IsPrefix(DOWNLOAD_ALBUM_, data) THEN session[u].current_album
                  ELSE NoCollection
    IN /\ IF Len(parts) >= 4 /\ stored # NoCollection
          THEN start_collection_download(u, stored.total_tracks, quality)
          ELSE UNCHANGED <<pc, coll, view>>
       /\ UNCHANGED <<jobs, session>>

\* Lines 528-552 for the buttons other than Cancel: query.answer(), which may
\* raise, then the handler of the data. The button is one of a menu the chat
\* holds (pressed is the item the menu was made for) or a button of no menu
\* of this session (pressed is NoItem). A handler that edits the message
\* replaces its menu.
HandleButtonCallback(u, data, pressed) ==
    /\ pc[u] = "idle"
    /\ \/ pressed = NoItem /\ data \in ButtonData
       \/ pressed \in menus[u] /\ data \in menu_buttons(pressed)
    /\ \/ /\ Handled(u, "button", data, "", "", FALSE, pressed, NoItem)
          /\ UNCHANGED <<pc, coll, jobs, session, view, menus>>
       \/ /\ CASE data = MAIN_MENU ->
                    /\ \/ view' = [view EXCEPT ![u] = Sent("main_menu")]
                       \/ view' = [view EXCEPT ![u] = Refused("main_menu")]
                    /\ UNCHANGED <<pc, coll, jobs, session>>
               [] IsPrefix(QUALITY_, data) -> handle_quality_selection(u, data)
               [] IsPrefix(DOWNLOAD_, data) -> handle_download_request(u, data)
               [] OTHER ->
                    /\ \/ view' = [view EXCEPT ![u] = Sent("unknown_action")]
                       \/ view' = [view EXCEPT ![u] = Refused("unknown_action")]
                    /\ UNCHANGED <<pc, coll, jobs, session>>
          /\ Handled(u, "button", data, "", "", TRUE, pressed,
                     IF pc'[u] \in {"idle", "raised"} THEN NoItem ELSE operand(session[u], data))
          /\ menus' = [menus EXCEPT ![u] = IF view'[u] # view[u] /\ view'[u].shown THEN @ \ {pressed} ELSE @]
    /\ UNCHANGED <<stats, files, quality_in, ydl_out, name_in, name_out, ws, url_in, id_out, bar, filename_in, sanitized_out>>

\* A cancel_download that stops the flow of the user and drops its job.
CancelDownload_stops(u) ==
    /\ view' = [view EXCEPT ![u] = Sent("cancelled")]
    /\ jobs' = {job \in jobs : job.owner # u}
    /\ pc' = [pc EXCEPT ![u] = "idle"]
    /\ UNCHANGED <<coll, stats, files, quality_in, ydl_out, name_in, name_out, ws, url_in, id_out, session, update, bar, filename_in, sanitized_out, menus>>

\* Lines 549-550 and 813-819: the Cancel button, which a user may press
\* whatever the flow is doing; the handler edits the message and nothing else.
CancelDownload(u) ==
    /\ \/ view' = [view EXCEPT ![u] = Sent("cancelled")]
       \/ view' = [view EXCEPT ![u] = Refused("cancelled")]
    /\ UNCHANGED <<pc, coll, stats, jobs, files, quality_in, ydl_out, name_in, name_out, ws, url_in, id_out, session, update, bar, filename_in, sanitized_out, menus>>

\* Lines 652-654, 675-686 with lines 51-66 of download_track: the worker's
\* value arrives; without a file the flow raises into its handler.
TrackDownloadReturns(u) ==
    /\ pc[u] = "track_await"
    /\ LET job == Current(u)
           r == checked_result(files, job.ret)
       IN /\ job.wpc = "finished"
          /\ SetJob(job, [job EXCEPT !.caller = "returned", !.result = r])
          /\ IF r # None
             THEN pc' = [pc EXCEPT ![u] = "track_send"] /\ view' = view
             ELSE TrackFailed(u)
    /\ UNCHANGED <<coll, stats, files, quality_in, ydl_out, name_in, name_out, ws, url_in, id_out, session, update, bar, filename_in, sanitized_out, menus>>

\* Lines 68-70 of download_track, then lines 675-686.
TrackDownloadTimesOut(u) ==
    /\ pc[u] = "track_await"
    /\ LET job == Current(u)
       IN /\ job.wpc # "finished"
          /\ job.elapsed >= wait_for_timeout
          /\ SetJob(job, [job EXCEPT !.caller = "returned", !.result = None, !.timed_out = TRUE])
          /\ TrackFailed(u)
    /\ UNCHANGED <<coll, stats, files, quality_in, ydl_out, name_in, name_out, ws, url_in, id_out, session, update, bar, filename_in, sanitized_out, menus>>

\* Lines 655-673: send_audio and the closing message; when the transport
\* refuses either, line 678 catches it.
TrackSend(u) ==
    /\ pc[u] = "track_send"
    /\ \/ /\ stats' = [stats EXCEPT ![u].sent = @ + 1]
          /\ \/ /\ view' = [view EXCEPT ![u] = Sent("complete")]
                /\ pc' = [pc EXCEPT ![u] = "idle"]
             \/ TrackFailed(u)
       \/ /\ stats' = stats
          /\ TrackFailed(u)
    /\ jobs' = {job \in jobs : ~Over(job)}
    /\ UNCHANGED <<coll, files, quality_in, ydl_out, name_in, name_out, ws, url_in, id_out, session, update, bar, filename_in, sanitized_out, menus>>

\* The handler of a collection button returns (or an exception leaves it);
\* its locals go.
HandlerReturns(u) ==
    /\ pc[u] \in {"done", "raised"}
    /\ pc' = [pc EXCEPT ![u] = "idle"]
    /\ coll' = [coll EXCEPT ![u] = NoColl]
    /\ stats' = [stats EXCEPT ![u] = NoStats]
    /\ jobs' = {job \in jobs : ~Over(job)}
    /\ UNCHANGED <<files, quality_in, ydl_out, name_in, name_out, ws, url_in, id_out, session, view, update, bar, filename_in, sanitized_out, menus>>

NextSession ==
    \/ \E u \in Users, text \in MessageTexts, track_info \in Catalog \cup {NoTrack},
          collection_info \in {C1, C2, NoCollection} :
           update[u].n < MaxUpdates /\ HandleMessage(u, text, track_info, collection_info)
    \/ \E u \in Users : \E pressed \in {NoItem} \cup menus[u] :
          \E data \in ButtonData \cup menu_buttons(pressed) :
              update[u].n < MaxUpdates /\ HandleButtonCallback(u, data, pressed)
    \/ \E u \in Users : CancelDownload(u)
    \/ \E u \in Users : TrackDownloadReturns(u)
    \/ \E u \in Users : TrackDownloadTimesOut(u)
    \/ \E u \in Users : TrackSend(u)
    \/ \E u \in Users : HandlerReturns(u)
    \/ \E u \in Users, track \in Catalog : Progress(u, track)
    \/ \E u \in Users : ProgressFails(u)
    \/ \E u \in Users : DownloadReturns(u)
    \/ \E u \in Users : DownloadTimesOut(u)
    \/ \E u \in Users : SendAudio(u)
    \/ \E u \in Users : Summary(u)
    \/ \E job \in jobs : WorkerSearch(job)
    \/ \E job \in jobs : WorkerDownload(job)
    \/ \E job \in jobs, ext \in InfoExts : WorkerReconcile(job, ext)
    \/ Tick

\* The state after construction (lines 319-321): nothing stored, nothing shown.
SpecSession == Init /\ [][NextSession]_vars

\* The event loop runs a coroutine that can go on, and the timer of wait_for
\* comes due.
SpecSessionFair ==
    /\ SpecSession
    /\ WF_vars(Tick)
    /\ \A u \in Users :
          /\ WF_vars(TrackDownloadReturns(u))
          /\ WF_vars(TrackDownloadTimesOut(u))
          /\ WF_vars(TrackSend(u))

\* The same handlers where a user sends up to MaxMenuUpdates updates: menus of
\* earlier links are still in the chat when a button is pressed.
NextMenus ==
    \/ \E u \in Users, text \in MessageTexts, track_info \in Catalog \cup {NoTrack},
          collection_info \in {C1, C2, NoCollection} :
           update[u].n < MaxMenuUpdates /\ HandleMessage(u, text, track_info, collection_info)
    \/ \E u \in Users : \E pressed \in {NoItem} \cup menus[u] :
          \E data \in ButtonData \cup menu_buttons(pressed) :
              update[u].n < MaxMenuUpdates /\ HandleButtonCallback(u, data, pressed)
    \/ \E u \in Users : CancelDownload(u)
    \/ \E u \in Users : TrackDownloadReturns(u)
    \/ \E u \in Users : TrackDownloadTimesOut(u)
    \/ \E u \in Users : TrackSend(u)
    \/ \E u \in Users : HandlerReturns(u)
    \/ \E u \in Users, track \in Catalog : Progress(u, track)
    \/ \E u \in Users : ProgressFails(u)
    \/ \E u \in Users : DownloadReturns(u)
    \/ \E u \in Users : DownloadTimesOut(u)
    \/ \E u \in Users : SendAudio(u)
    \/ \E u \in Users : Summary(u)
    \/ \E job \in jobs : WorkerSearch(job)
    \/ \E job \in jobs : WorkerDownload(job)
    \/ \E job \in jobs, ext \in InfoExts : WorkerReconcile(job, ext)
    \/ Tick

SpecMenus == Init /\ [][NextMenus]_vars

\* --------------------------------------------- the progress line on its own
\* Longest collection whose progress lines are built.
MaxBarTracks == 15

\* A progress line that counts the tracks done before track i.
progress_line_zero_based(i, total_tracks) ==
    [filled |-> ((i - 1) * 10) \div total_tracks,
     empty |-> 10 - ((i - 1) * 10) \div total_tracks,
     percent |-> ((i - 1) * 100) \div total_tracks]

\* Line 728 (782): the cells of the bar and the percentage of track i.
progress_line(i, total_tracks) ==
    [filled |-> (i * 10) \div total_tracks,
     empty |-> 10 - (i * 10) \div total_tracks,
     percent |-> (i * 100) \div total_tracks]

InitProgressLine ==
    /\ pc = [u \in Users |-> "idle"]
    /\ coll = [u \in Users |-> NoColl]
    /\ stats = [u \in Users |-> NoStats]
    /\ jobs = {}
    /\ files = {}
    /\ quality_in = None
    /\ ydl_out = NotCalled
    /\ name_in = NoNaming
    /\ name_out = NotNamed
    /\ ws = NoWs
    /\ url_in = None
    /\ id_out = NotExtracted
    /\ session = [u \in Users |-> NoSession]
    /\ view = [u \in Users |-> NoView]
    /\ update = [u \in Users |-> NoUpdate]
    /\ bar \in {[total_tracks |-> t, lines |-> << >>] : t \in 1..MaxBarTracks}
    /\ filename_in = None
    /\ sanitized_out = NotSanitized
    /\ menus = [u \in Users |-> {}]

\* The loop of line 720 (774) as far as the progress line goes: the line of
\* the next track, enumerate counting from 1.
NextProgressLine ==
    /\ Len(bar.lines) < bar.total_tracks
    /\ bar' = [bar EXCEPT !.lines = Append(@, progress_line(Len(@) + 1, bar.total_tracks))]
    /\ UNCHANGED <<pc, coll, stats, jobs, files, quality_in, ydl_out, name_in, name_out, ws, url_in, id_out, session, view, update, filename_in, sanitized_out, menus>>

SpecProgressLine == InitProgressLine /\ [][NextProgressLine]_vars

\* ------------------------------------------- sanitize_filename on its own
\* Longest run of characters put before and after the filler of a file name.
MaxAffixLen == 2

\* The characters file names are made of here: a letter, the two characters
\* strip takes away, and two of the invalid ones.
FilenameChars == {"a", " ", ".", "/", "*"}

\* n times the letter "a"
Filler(n) == [i \in 1..n |-> "a"]

\* File names short and long: a few characters, with or without a filler
\* that brings them to the length limit.
Filenames ==
    {pre \o Filler(n) \o post :
        pre \in SeqsUpTo(FilenameChars, MaxAffixLen),
        post \in SeqsUpTo(FilenameChars, MaxAffixLen),
        n \in {0, MAX_FILENAME_LEN - 1}}

InitSanitize ==
    /\ pc = [u \in Users |-> "idle"]
    /\ coll = [u \in Users |-> NoColl]
    /\ stats = [u \in Users |-> NoStats]
    /\ jobs = {}
    /\ files = {}
    /\ quality_in = None
    /\ ydl_out = NotCalled
    /\ name_in = NoNaming
    /\ name_out = NotNamed
    /\ ws = NoWs
    /\ url_in = None
    /\ id_out = NotExtracted
    /\ session = [u \in Users |-> NoSession]
    /\ view = [u \in Users |-> NoView]
    /\ update = [u \in Users |-> NoUpdate]
    /\ bar = NoBar
    /\ filename_in \in Filenames
    /\ sanitized_out = NotSanitized
    /\ menus = [u \in Users |-> {}]

CallSanitize ==
    /\ ~sanitized_out.called
    /\ sanitized_out' = [called |-> TRUE, value |-> sanitize_filename(filename_in)]
    /\ UNCHANGED <<pc, coll, stats, jobs, files, quality_in, ydl_out, name_in, name_out, ws, url_in, id_out, session, view, update, bar, filename_in, menus>>

NextSanitize == CallSanitize

SpecSanitize == InitSanitize /\ [][NextSanitize]_vars

\* ===================================================================
\* Properties
\* ===================================================================
Recognized == {Q128, Q192, Q320}

\* The job's worker ran the reconciliation of lines 106-122.
Reconciled(job) == job.wpc = "finished" /\ job.why \in {"found", "notfound"}

\* The expected path without its extension: "....<ext>" less the dot and <ext>.
Stem(job) == SubSeq(job.expected_path, 1, Len(job.expected_path) - 2)

WithExt(job, ext) == Stem(job) \o <<".", ext>>

ProbeOrder == <<"mp3", "m4a", "webm", "ogg">>

\* C1: when a collection flow has emitted its final summary, download_track
\* has been called once for every track of the collection.
C1_EveryTrackAttempted ==
    \A u \in Users : pc[u] = "done" => stats[u].calls = coll[u].total_tracks

\* C2: within one collection flow the calls of download_track are made one at
\* a time and in sequence order: the call being awaited is the one of the
\* current track, every call of an earlier track has returned, no call of a
\* later track exists, and no call is awaited while a delivery is under way.
C2_Sequential ==
    \A u \in Users : \A job \in jobs :
        job.owner = u =>
            /\ job.idx <= coll[u].i
            /\ job.caller = "awaiting" => job.idx = coll[u].i /\ pc[u] = "await"
            /\ job.idx < coll[u].i => job.caller = "returned"
            /\ stats[u].calls <= coll[u].i

\* The call for track 2 is awaited while the worker of track 1, abandoned by a
\* timeout, is still running.
C2_Witness ==
    \E a, b \in jobs :
        /\ a.idx = 1 /\ a.timed_out /\ a.wpc # "finished"
        /\ b.idx = 2 /\ b.caller = "awaiting" /\ b.owner = a.owner

C4_TimeoutBoundsTheWait ==
    \A job \in jobs :
        /\ job.caller = "awaiting" => job.elapsed <= 60
        /\ job.timed_out =>
            /\ job.caller = "returned"
            /\ job.result = None
            /\ job.elapsed = 60

\* A call has timed out, its worker is still downloading, and the flow has
\* gone on to a later track.
C4_Witness ==
    \E job \in jobs :
        /\ job.timed_out
        /\ job.wpc = "downloading"
        /\ coll[job.owner].i > job.idx

\* C5: a search that returned None, a result without 'entries' or an empty
\* entries list ends the worker with None: no download call is made and the
\* job writes no file.
C5_EmptySearchEndsTheJob ==
    \A job \in jobs :
        (/\ job.searches > 0
         /\ job.why # "error"
         /\ \/ job.search_results.is_none
            \/ ~job.search_results.has_entries
            \/ job.search_results.entries = << >>)
        => /\ job.wpc = "finished"
           /\ job.why = "noresults"
           /\ job.ret = None
           /\ job.downloads = 0
           /\ job.wrote = {}
           /\ job.caller = "returned" => job.result = None

\* A call has returned None after a search that gave an empty entries list.
C5_Witness ==
    \E job \in jobs :
        /\ job.searches = 1
        /\ job.search_results = SR_EMPTY
        /\ job.why = "noresults"
        /\ job.caller = "returned"

C8_PrefixScan ==
    \A job \in jobs :
        Reconciled(job) =>
            LET matches == {i \in DOMAIN job.listing :
                               IsPrefix(basename(Stem(job)), job.listing[i])}
            IN /\ job.scanned <=> \A i \in 1..4 : WithExt(job, ProbeOrder[i]) \notin job.seen
               /\ ~job.scanned => job.listing = << >> /\ job.why = "found"
               /\ job.scanned =>
                    /\ {job.listing[i] : i \in DOMAIN job.listing} = listdir(job.seen)
                    /\ Len(job.listing) = Cardinality(listdir(job.seen))
                    /\ matches = {} => job.ret = None /\ job.why = "notfound"
                    /\ matches # {} =>
                         /\ job.why = "found"
                         /\ \E i \in matches :
                              /\ job.ret = download_dir \o <<"/">> \o job.listing[i]
                              /\ \A k \in matches : i <= k

\* A scan returned the second listed entry: the first belongs to another track.
C8_Witness ==
    \E job \in jobs :
        /\ Reconciled(job)
        /\ job.scanned
        /\ Len(job.listing) >= 2
        /\ job.ret = download_dir \o <<"/">> \o job.listing[2]

\* C9: a call of download_track that has returned has one value: a path of a
\* file that exists, which the worker found before the timeout, or None; it is
\* None after an empty search, a timeout, a file not found and a backend error.
C9_OneOutcome ==
    \A job \in jobs :
        /\ job.caller = "awaiting" => job.result = None /\ ~job.timed_out
        /\ job.caller = "returned" =>
            /\ job.result # None =>
                /\ job.result \in files
                /\ ~job.timed_out
                /\ job.wpc = "finished"
                /\ job.why = "found"
                /\ job.result = job.ret
            /\ job.timed_out => job.result = None
            /\ job.why \in {"noresults", "notfound", "error"} => job.result = None
            /\ ~job.timed_out => job.wpc = "finished"

\* A call returned None because the backend raised during the download.
C9_Witness ==
    \E job \in jobs :
        /\ job.caller = "returned"
        /\ job.why = "error"
        /\ job.downloads = 1
        /\ job.result = None

\* C10: for a quality string other than "128", "192" and "320" the options
\* builder returns what it returns for "192".
C10_UnknownQualityIsMedium ==
    (ydl_out # NotCalled /\ quality_in \notin Recognized)
        => ydl_out = get_ydl_options(Q192)

\* The builder was applied to the unknown quality "99".
C10_Witness == ydl_out # NotCalled /\ quality_in = <<"9", "9">>

\* C11: the options builder gives "128" a format capped at 128, "192" a format
\* capped at 192 and "320" the uncapped best audio; whatever the quality
\* string, the network timeout is 20, the chunk size 10 MiB, both retry counts
\* 2, every side-artifact flag is off, and the fields other than the format
\* are those of every other tier.
C11_QualityMapping ==
    ydl_out # NotCalled =>
        /\ quality_in = <<"1", "2", "8">> => ydl_out.format = "bestaudio[abr<=128]/bestaudio"
        /\ quality_in = <<"1", "9", "2">> => ydl_out.format = "bestaudio[abr<=192]/bestaudio"
        /\ quality_in = <<"3", "2", "0">> => ydl_out.format = "bestaudio/best"
        /\ ydl_out.socket_timeout = 20
        /\ ydl_out.http_chunk_size = 10 * 1024 * 1024
        /\ ydl_out.retries = 2
        /\ ydl_out.fragment_retries = 2
        /\ ~ydl_out.writesubtitles
        /\ ~ydl_out.writeautomaticsub
        /\ ~ydl_out.writedescription
        /\ ~ydl_out.writeinfojson
        /\ ~ydl_out.writethumbnail
        /\ \A q \in Recognized :
              [ydl_out EXCEPT !.format = ""] = [get_ydl_options(q) EXCEPT !.format = ""]

\* The builder was applied to "320" and gave the uncapped format.
C11_Witness ==
    /\ ydl_out # NotCalled
    /\ quality_in = Q320
    /\ ydl_out.format = "bestaudio/best"

\* The readable part of a track's file name: "<name> - <artist>".
Readable(track) == track.name \o <<" ", "-", " ">> \o track.artist

\* C12: two calls of download_track for descriptors with the same name and
\* artist build the same output template, whatever the descriptors' other
\* fields and whatever the quality of each call.
C12_NamingDeterministic ==
    name_out # NotNamed =>
        ((/\ name_in[1].track.name = name_in[2].track.name
          /\ name_in[1].track.artist = name_in[2].track.artist)
         => /\ name_out[1] = name_out[2]
            /\ basename(name_out[1]) = basename(name_out[2]))

\* Two calls for the same name and artist with different ids and qualities
\* built the same template.
C12_Witness ==
    /\ name_out # NotNamed
    /\ name_in[1].track.name = name_in[2].track.name
    /\ name_in[1].track.artist = name_in[2].track.artist
    /\ name_in[1].track.id # name_in[2].track.id
    /\ name_in[1].quality # name_in[2].quality
    /\ name_out[1] = name_out[2]

C14_FilesystemSafeName ==
    name_out # NotNamed =>
        \A k \in 1..2 :
            LET track == name_in[k].track
                raw == Readable(track) \o <<" ", "[">> \o md5_8(search_query_of(track)) \o <<"]">>
                pre == download_dir \o <<"/">>
                base == SubSeq(name_out[k], Len(pre) + 1, Len(name_out[k]) - 2)
            IN /\ IsPrefix(pre, name_out[k])
               /\ base = sanitize_filename(raw)
               /\ Len(base) <= 200
               /\ \A i \in DOMAIN base : base[i] \notin {"<", ">", ":", "\"", "/", "\\", "|", "?", "*"}

\* The jobs whose worker is running the backend call.
Running == {job \in jobs : job.wpc # "finished"}

\* C15: two download jobs whose workers run at the same time have different
\* output templates, and neither has written a file the other has written.
C15_DistinctOutputPaths ==
    \A a, b \in Running :
        a # b => a.outtmpl # b.outtmpl /\ a.wrote \cap b.wrote = {}

\* C16: the path a call of download_track returns is the path of a file that
\* the call's own backend download wrote.
C16_ResultIsOwnFile ==
    \A job \in jobs :
        (job.caller = "returned" /\ job.result # None) => job.result \in job.wrote

\* C17 as claimed: a worker runs the backend call of a job only while the
\* job's call of download_track has not returned, so the running workers are
\* no more than the unresolved calls.
C17_WorkerWithinCall ==
    /\ \A job \in Running : job.caller = "awaiting"
    /\ Cardinality(Running) <= Cardinality(Awaiting)

\* C17 as amended: every job is run by one worker, which makes each backend
\* call at most once; a worker still running after its call of download_track
\* returned belongs to a call that timed out, and a call that returned
\* without timing out has a worker that has ended; so the running workers are
\* no more than the unresolved calls and the timed-out calls still running.
C17_WorkerOutlivesOnlyTimedOutCall ==
    /\ \A job \in jobs :
         /\ job.searches <= 1
         /\ job.downloads <= 1
         /\ (job.caller = "returned" /\ job.wpc # "finished") => job.timed_out
         /\ (job.caller = "returned" /\ ~job.timed_out) => job.wpc = "finished"
    /\ Cardinality(Running) <=
         Cardinality(Awaiting) + Cardinality({job \in Running : job.timed_out})

\* The worker of a timed-out call is reconciling while the next call of the
\* same flow is awaited and its worker is searching.
C17_Witness ==
    \E a, b \in jobs :
        /\ a.timed_out /\ a.wpc = "reconciling"
        /\ b.caller = "awaiting" /\ b.wpc = "searching" /\ b.idx = a.idx + 1

\* The files under the workspace directory.
InWorkspace(fs) == {f \in fs : IsPrefix(download_dir \o <<"/">>, f)}

\* C18 as claimed: after cleanup_all has returned, no file is left under the
\* workspace directory, the directory is gone, and the call did not raise.
C18_CleanupAllLeavesNothing ==
    ws.op = "cleanup_all" =>
        /\ InWorkspace(files) = {}
        /\ ~ws.dir_exists
        /\ ~ws.raised

\* C18 as amended: cleanup_all never raises, the first time or again. After
\* it, the files directly in the directory are gone but those whose removal
\* failed and those written while it ran; everything else is as before; the
\* directory is gone exactly if it was there and nothing is left in it. When
\* no removal failed and no job wrote meanwhile, no file is left under the
\* workspace directory and the directory is gone.
C18_CleanupAllBestEffort ==
    ws.op = "cleanup_all" =>
        /\ ~ws.raised
        /\ ws.had_dir =>
             /\ files = {f \in ws.before : f \notin TopFiles(ws.before) \/ f \in ws.failed}
                            \cup ws.late
             /\ ws.dir_exists <=> InWorkspace(files) # {}
        /\ ~ws.had_dir => files = ws.before /\ ~ws.dir_exists /\ ws.failed = {}
        /\ ws.failed = {} /\ ws.late = {} => InWorkspace(files) = {} /\ ~ws.dir_exists

\* cleanup_all was called again after a call that removed the directory.
C18_Witness ==
    /\ ws.op = "cleanup_all"
    /\ ws.calls = 2
    /\ ~ws.had_dir
    /\ Cardinality(files) = 0

\* C19: cleanup_file never raises; it takes no file away but the one at its
\* path, takes that one away unless its removal failed, and changes nothing
\* when no file is at the path.
C19_CleanupFileFrame ==
    ws.op = "cleanup_file" =>
        /\ ~ws.raised
        /\ files \subseteq ws.before
        /\ ws.before \ files \subseteq {ws.path}
        /\ ws.path \notin ws.before => files = ws.before
        /\ (ws.path \in ws.before /\ ws.failed = {}) => ws.path \notin files
        /\ ws.failed \subseteq {ws.path}
        /\ ws.dir_exists = ws.had_dir

\* cleanup_file removed one of three files and left the other two.
C19_Witness ==
    /\ ws.op = "cleanup_file"
    /\ Cardinality(ws.before) = 3
    /\ ws.path \in ws.before
    /\ files = ws.before \ {ws.path}

\* C20: once a collection flow has handed the file of a track to send_audio
\* and gone on, the file is no longer in the workspace.
C20_DeliveredFileReclaimed ==
    \A job \in jobs :
        (/\ job.caller = "returned"
         /\ job.result # None
         /\ coll[job.owner].i > job.idx)
        => job.result \notin files

\* The places where the words of a form of link lie in the text, an id
\* character after them.
Occurs(lit, url) ==
    {i \in 1..Len(url) : \E rest \in 1..Len(url) :
        /\ i + Len(lit) - 1 + rest <= Len(url)
        /\ \A k \in 1..Len(lit) : url[i + k - 1] = lit[k]
        /\ url[i + Len(lit)] \in AlnumTokens}

\* The forms of link in the order the lookup is to try them.
LinkForms ==
    <<web_pattern("track"), web_pattern("playlist"), web_pattern("album"),
      uri_pattern("track"), uri_pattern("playlist"), uri_pattern("album")>>

FormKind == <<"track", "playlist", "album", "track", "playlist", "album">>

\* C21: extract_spotify_id answers with the kind of the first form, web forms
\* (track, playlist, album) before URI forms (same order), that occurs in the
\* text, and with the id that follows its leftmost occurrence; with (None,
\* None) when no form occurs. The answer is (None, None) or a non-empty id of
\* letters and digits with a kind among track, playlist, album.
C21_FirstMatchingForm ==
    id_out.called =>
        LET found == {n \in 1..Len(LinkForms) : Occurs(LinkForms[n], url_in) # {}}
        IN /\ found = {} => id_out.id = None /\ id_out.kind = ""
           /\ found # {} =>
                 LET n == Min(found)
                     at == Min(Occurs(LinkForms[n], url_in)) + Len(LinkForms[n])
                 IN /\ id_out.kind = FormKind[n]
                    /\ id_out.id # None
                    /\ \A k \in 1..Len(id_out.id) :
                          id_out.id[k] = url_in[at + k - 1] /\ id_out.id[k] \in AlnumTokens
                    /\ at + Len(id_out.id) <= Len(url_in) =>
                          url_in[at + Len(id_out.id)] \notin AlnumTokens

\* C21 witness: a text holding a web form of one kind after a URI form of
\* another has been looked up.
C21_Witness ==
    /\ id_out.called
    /\ Occurs(web_pattern("album"), url_in) # {}
    /\ Occurs(uri_pattern("track"), url_in) # {}
    /\ Min(Occurs(uri_pattern("track"), url_in)) < Min(Occurs(web_pattern("album"), url_in))

\* C25 as stated: while the progress indicator of track i is the one on
\* view, the download attempt for track i has resolved.
C25_ProgressAfterAttempt ==
    \A u \in Users : view[u].text = "progress" /\ view[u].shown =>
        ~\E job \in jobs : job.owner = u /\ job.idx = view[u].i /\ job.caller = "awaiting"

\* C25, amended: the progress indicator of track i is emitted before the
\* download attempt for track i starts: a step that calls download_track is
\* the step that puts the indicator of that track on view, the end of an
\* attempt, whatever its outcome, emits none, and each indicator is that of
\* the track after the one before.
C25_ProgressBeforeAttempt ==
    [][\A u \in Users :
          /\ stats'[u].calls # stats[u].calls =>
                /\ view'[u] = [text |-> "progress", i |-> coll[u].i, shown |-> TRUE]
                /\ \E job \in jobs' : job.owner = u /\ job.idx = coll[u].i /\ job.elapsed = 0
          /\ pc[u] \in {"await", "send"} => view'[u] = view[u]
          /\ view[u].text = "progress" /\ view'[u].text = "progress" /\ view'[u] # view[u] =>
                view'[u].i = view[u].i + 1]_vars

\* C25 witness: the indicator of the second track is on view while the
\* attempt for that track is in flight.
C25_Witness ==
    \E u \in Users :
        /\ pc[u] = "await"
        /\ view[u] = [text |-> "progress", i |-> 2, shown |-> TRUE]
        /\ \E job \in jobs : job.owner = u /\ job.idx = 2 /\ job.caller = "awaiting"

\* The place of a job: Searching, Downloading (with the search for the file
\* it wrote), Resolved.
Rank(job) ==
    CASE job.wpc = "searching" -> 1
      [] job.wpc = "downloading" -> 2
      [] job.wpc = "reconciling" -> 3
      [] job.wpc = "finished" -> 4

SameJob(j, k) == j.owner = k.owner /\ j.idx = k.idx

SameWork(j, k) == k.searches = j.searches /\ k.downloads = j.downloads /\ k.wrote = j.wrote

\* A job moves forward only, searches and downloads once at most, and a
\* failure ends it.
Forward(j, k) ==
    /\ Rank(k) >= Rank(j)
    /\ k.searches <= 1 /\ k.downloads <= 1
    /\ k.searches >= j.searches /\ k.downloads >= j.downloads
    /\ k.why \in {"error", "noresults"} => k.wpc = "finished" /\ k.ret = None

\* C26 as stated: a job moves only forward, searches once and downloads once
\* at most, a failure ends it, and once the call has returned no search,
\* download or file write is done on its behalf.
C26_NothingAfterResolved ==
    [][\A j \in jobs, k \in jobs' : SameJob(j, k) =>
          /\ Forward(j, k)
          /\ j.caller = "returned" => SameWork(j, k)]_vars

\* C26, amended: a job moves only forward, searches once and downloads once
\* at most, a failure ends it, and once the call has returned other than by
\* timeout no search, download or file write is done on its behalf; after a
\* timeout the worker left running still does what is left of its one search
\* and one download.
C26_ForwardOnly ==
    [][\A j \in jobs, k \in jobs' : SameJob(j, k) =>
          /\ Forward(j, k)
          /\ j.caller = "returned" /\ ~j.timed_out => SameWork(j, k)
          /\ j.caller = "returned" => k.caller = "returned" /\ k.result = j.result]_vars

\* C26 witness: the worker of a call that timed out has since made its one
\* download and written a file.
C26_Witness ==
    \E job \in jobs :
        /\ job.timed_out /\ job.caller = "returned" /\ job.result = None
        /\ job.searches = 1 /\ job.downloads = 1 /\ job.wrote # {}

\* C27: a timeout leaves the worker running and removes nothing; the file the
\* worker writes stays in the workspace and is the result of no other call.
C27_OrphanStaysUndelivered ==
    \A a \in jobs : a.timed_out =>
        /\ a.wrote \subseteq files
        /\ \A b \in jobs :
              b # a /\ b.caller = "returned" /\ b.result # None /\ b.result \notin b.wrote
                  => b.result \notin a.wrote

Handles(u, kind) == update'[u].n # update[u].n /\ update'[u].kind = kind

\* C22: the Cancel button changes the displayed message and nothing else: it
\* starts no job, and a job in flight is neither stopped nor altered; the
\* flow it belongs to goes on and ends with the message of its outcome.
C22_CancelOnlyEditsMessage ==
    [][\A u \in Users :
          /\ view'[u].text = "cancelled" /\ view'[u] # view[u] =>
                /\ jobs' = jobs /\ files' = files
                /\ pc' = pc /\ coll' = coll /\ stats' = stats /\ session' = session
          /\ pc[u] \in {"track_await", "track_send"} /\ pc'[u] = "idle" =>
                view'[u].text \in {"complete", "failed"}
          /\ pc[u] = "summary" /\ pc'[u] # "summary" => view'[u].text = "summary"]_vars

\* C22 witness: Cancel was taken while the download job of the user is in
\* flight, its worker at work.
C22_Witness ==
    \E u \in Users :
        /\ pc[u] = "track_await"
        /\ view[u] = Sent("cancelled")
        /\ \E job \in jobs : job.owner = u /\ job.caller = "awaiting" /\ job.wpc = "downloading"

FailureTexts(route) ==
    CASE route = "track" -> {"track_not_found", "track_error", "went_wrong"}
      [] route = "playlist" -> {"playlist_not_found", "playlist_error", "went_wrong"}
      [] route = "album" -> {"album_not_found", "album_error", "went_wrong"}
      [] OTHER -> {}

\* C24: when the metadata lookup for a track, playlist or album link gives
\* nothing, the handler answers with an error message, shows no quality menu,
\* starts no download job and leaves the session data as it was.
C24_FailedLookupAborts ==
    [][\A u \in Users : Handles(u, "message") /\ update'[u].info = "none" =>
          /\ view'[u].text \in FailureTexts(update'[u].route)
          /\ session' = session
          /\ jobs' = jobs
          /\ pc'[u] = "idle"]_vars

\* C24 witness: a playlist link whose lookup gave nothing was answered with
\* 'not found' while the playlist stored before is still the stored one.
C24_Witness ==
    \E u \in Users :
        /\ update[u].kind = "message" /\ update[u].route = "playlist" /\ update[u].info = "none"
        /\ view[u] = Sent("playlist_not_found")
        /\ session[u].current_playlist = C1

\* The kind of the first form of link in the text, "" when there is none.
LinkKind(text) ==
    LET found == {n \in 1..Len(LinkForms) : Occurs(LinkForms[n], text) # {}}
    IN IF found = {} THEN "" ELSE FormKind[Min(found)]

\* C29: a message whose text holds a link in the web form or in the URI form
\* is handed to the flow of its kind (once the first reply was taken); only a
\* text with neither form is answered 'not a valid link' or 'unsupported link'.
C29_EveryLinkRouted ==
    \A u \in Users : update[u].kind = "message" /\ update[u].route # "" =>
        IF LinkKind(update[u].data) # ""
        THEN update[u].route = LinkKind(update[u].data)
        ELSE update[u].route \in {"invalid", "unsupported"}

\* The download a button asks for cannot start: no track is stored for a
\* quality button, or the collection is not stored or the data lacks its
\* parts for a playlist or album button.
CannotProceed(sess, data) ==
    \/ IsPrefix(QUALITY_, data) /\ sess.current_track = NoTrack
    \/ IsPrefix(DOWNLOAD_PLAYLIST_, data)
           /\ (sess.current_playlist = NoCollection \/ Len(split(data, "_")) < 4)
    \/ IsPrefix(DOWNLOAD_ALBUM_, data)
           /\ (sess.current_album = NoCollection \/ Len(split(data, "_")) < 4)

\* C30: a button that asks for a download that cannot start is answered with
\* a failure message before the handler returns.
C30_FailureIsTold ==
    [][\A u \in Users :
          Handles(u, "button") /\ update'[u].answered /\ CannotProceed(session[u], update'[u].data) =>
              /\ view'[u].text = "session_expired"
              /\ pc'[u] = "idle"]_vars

\* C31: for a collection of total >= 1 tracks and each position i up to
\* total, the progress line has (i*10) div total filled cells and the rest of
\* 10 cells empty, and shows (i*100) div total percent, within 0..10 and
\* 0..100; cells and percent do not go down from one track to the next, and
\* are 10 and 100 at the last track and at no track before it.
C31_ProgressLine ==
    \A i \in 1..Len(bar.lines) :
        LET l == bar.lines[i]
            total == bar.total_tracks
        IN /\ l.filled \in 0..10 /\ l.empty \in 0..10 /\ l.filled + l.empty = 10
           /\ l.percent \in 0..100
           /\ l.filled * total <= i * 10 /\ i * 10 < (l.filled + 1) * total
           /\ l.percent * total <= i * 100 /\ i * 100 < (l.percent + 1) * total
           /\ i > 1 => bar.lines[i - 1].filled <= l.filled /\ bar.lines[i - 1].percent <= l.percent
           /\ l.filled = 10 <=> i = total
           /\ l.percent = 100 <=> i = total

\* C31 witness: all the lines of a collection of 11 tracks are built; the
\* first has one cell less than a tenth of the bar per track would give.
C31_Witness ==
    /\ bar.total_tracks = 11
    /\ Len(bar.lines) = 11
    /\ bar.lines[1].filled = 0 /\ bar.lines[1].percent = 9
    /\ bar.lines[11].filled = 10

\* C32: sanitize_filename returns at most 200 characters, none of them one
\* of < > : " / \ | ? *; what it returns is a stretch of the input with each
\* such character replaced by '_', none dropped; and it neither begins nor
\* ends with a space or a dot.
C32_SanitizedName ==
    sanitized_out.called =>
        LET out == sanitized_out.value
        IN /\ Len(out) <= 200
           /\ \A i \in DOMAIN out : out[i] \notin {"<", ">", ":", "\"", "/", "\\", "|", "?", "*"}
           /\ \E k \in 0..Len(filename_in) :
                 /\ k + Len(out) <= Len(filename_in)
                 /\ \A i \in DOMAIN out :
                       out[i] = IF filename_in[k + i] \in {"<", ">", ":", "\"", "/", "\\", "|", "?", "*"}
                                THEN "_" ELSE filename_in[k + i]
           /\ out # << >> => out[1] \notin {" ", "."} /\ out[Len(out)] \notin {" ", "."}

\* C33: a download a button starts operates on the item the button was made
\* for: the track of the menu the quality button belongs to, and the playlist
\* or album whose id the callback data of the button carries, whatever the
\* session stored last.
C33_ButtonDownloadsItsItem ==
    \A u \in Users : update[u].kind = "button" /\ update[u].item # NoItem =>
        /\ update[u].pressed # NoItem => update[u].item = update[u].pressed
        /\ update[u].item.kind \in {"playlist", "album"} =>
               <<update[u].item.id>> = split(update[u].data, "_")[3]

\* C34: in the single-track flow the two closing messages exclude each other
\* and tell what happened: a step that hands the audio file to the transport
\* with success does not give the chat the text 'Download failed'.
C34_FailedOnlyIfUndelivered ==
    [][\A u \in Users : pc[u] = "track_send" /\ stats'[u].sent = stats[u].sent + 1 =>
          view'[u].text # "failed"]_vars

\* C35: in a collection flow a refusal of the progress message of track i
\* does not keep the download of track i from being attempted: the step in
\* which the transport refuses that message still calls download_track for
\* track i, and the flow is not ended by it.
C35_RefusedProgressStillDownloads ==
    [][\A u \in Users :
          pc[u] = "progress" /\ view'[u] = [text |-> "progress", i |-> coll[u].i, shown |-> FALSE] =>
              /\ stats'[u].calls = stats[u].calls + 1
              /\ \E job \in jobs' : job.owner = u /\ job.idx = coll[u].i /\ ~Over(job)
              /\ pc'[u] # "raised"]_vars
====
